---- MODULE Spec2Model ----
(***************************************************************************)
(* A model of the write-assistant service (src/app.py): the slider         *)
(* validator, the prompt builder and the POST /process request handler     *)
(* with the two framework error handlers.                                  *)
(*                                                                         *)
(* Strings are modelled by what they hold.  A text is a run-length encoded *)
(* sequence of Unicode code points: a sequence of runs [ch |-> c, n |-> k] *)
(* (k >= 1 copies of code point c, adjacent runs differ in ch), so a text  *)
(* of 10,001 characters is one run.  The bytes of an uploaded file are the *)
(* same shape with byte values for ch.  Fixed literals of the program      *)
(* (messages, prompt sentences) are TLA+ strings.                          *)
(***************************************************************************)
EXTENDS Integers, Sequences, FiniteSets, TLC

VARIABLES
    api_key,            \* openai.api_key is set (truthy)
    request,            \* the request: form fields and uploaded file
    dispatch,           \* the handler the framework runs for the request
    provider,           \* what the completion service answers when called
    pc,                 \* position inside the handler
    text_input,         \* process_text's local text_input
    file_read,          \* file.read() has been executed
    sliders,            \* the four converted locals of process_text
    processing_prompt,  \* process_text's local processing_prompt
    calls,              \* messages handed to openai.ChatCompletion.create
    response,           \* the (body, status) returned for the request
    log,                \* records written to the logger
    ran                 \* the stages of process_text executed, in order

vars == <<api_key, request, dispatch, provider, pc, text_input, file_read,
          sliders, processing_prompt, calls, response, log, ran>>

----------------------------------------------------------------------------
(* Program constants.                                                      *)

SLIDER_MIN == 0
SLIDER_MAX == 10
MAX_TEXT_LENGTH == 10000

required_params == <<"faithfulness", "human_like", "ai_like", "formality">>

\* {'txt', 'md'} as code points
ALLOWED_EXTENSIONS == { <<116, 120, 116>>, <<109, 100>> }

----------------------------------------------------------------------------
(* Bounds of the model.                                                    *)

\* whitespace characters put around a padded text
MaxPad == 2
\* the long texts have MAX_TEXT_LENGTH - LenSlack .. MAX_TEXT_LENGTH + LenSlack
\* characters
LenSlack == 1

----------------------------------------------------------------------------
(* Texts.                                                                  *)

Run(c, k) == [ch |-> c, n |-> k]

\* a text from a plain sequence of code points
RECURSIVE Enc(_)
AppendRun(t, c, k) ==
    IF t # <<>> /\ t[Len(t)].ch = c
    THEN [t EXCEPT ![Len(t)].n = @ + k]
    ELSE Append(t, Run(c, k))
Enc(s) == IF s = <<>> THEN <<>>
          ELSE AppendRun(Enc(SubSeq(s, 1, Len(s) - 1)), s[Len(s)], 1)

\* the plain sequence of code points of a text
RECURSIVE Expand(_)
Expand(t) == IF t = <<>> THEN <<>>
             ELSE [i \in 1..Head(t).n |-> Head(t).ch] \o Expand(Tail(t))

\* len(t)
RECURSIVE TLen(_)
TLen(t) == IF t = <<>> THEN 0 ELSE Head(t).n + TLen(Tail(t))

RECURSIVE Concat(_, _)
Concat(a, b) == IF b = <<>> THEN a
                ELSE Concat(AppendRun(a, Head(b).ch, Head(b).n), Tail(b))

\* the characters str.strip() and int() treat as whitespace
Whitespace == {9, 10, 11, 12, 13, 28, 29, 30, 31, 32, 133, 160, 5760,
               8232, 8233, 8239, 8287, 12288} \cup (8192..8202)

RECURSIVE LStrip(_)
LStrip(t) == IF t # <<>> /\ Head(t).ch \in Whitespace THEN LStrip(Tail(t)) ELSE t

RECURSIVE RStrip(_)
RStrip(t) == IF t # <<>> /\ t[Len(t)].ch \in Whitespace
             THEN RStrip(SubSeq(t, 1, Len(t) - 1)) ELSE t

\* str.strip()
Strip(t) == RStrip(LStrip(t))

----------------------------------------------------------------------------
(* Python values and int().                                                *)

PyStr(t) == [type |-> "str", s |-> t, i |-> 0]
PyInt(k) == [type |-> "int", s |-> <<>>, i |-> k]
PyNone == [type |-> "none", s |-> <<>>, i |-> 0]

IsDigit(c) == c \in 48..57

\* the digit part of an int literal: digits, single underscores between them
DigitsOk(s) ==
    /\ s # <<>>
    /\ \A k \in 1..Len(s) :
          \/ IsDigit(s[k])
          \/ /\ s[k] = 95
             /\ k > 1 /\ k < Len(s)
             /\ IsDigit(s[k - 1]) /\ IsDigit(s[k + 1])

RECURSIVE DigitsValue(_, _)
DigitsValue(s, acc) ==
    IF s = <<>> THEN acc
    ELSE IF Head(s) = 95 THEN DigitsValue(Tail(s), acc)
    ELSE DigitsValue(Tail(s), 10 * acc + (Head(s) - 48))

Returned(k) == [exc |-> "none", v |-> k]
Raised(e) == [exc |-> e, v |-> 0]

\* int(s) of a str: surrounding whitespace, an optional sign, decimal digits
IntOfStr(t) ==
    LET s == Expand(Strip(t))
        signed == s # <<>> /\ s[1] \in {43, 45}
        digits == IF signed THEN Tail(s) ELSE s
    IN  IF ~DigitsOk(digits) THEN Raised("ValueError")
        ELSE IF signed /\ s[1] = 45 THEN Returned(0 - DigitsValue(digits, 0))
        ELSE Returned(DigitsValue(digits, 0))

\* int(x)
int(x) == CASE x.type = "int" -> Returned(x.i)
            [] x.type = "str" -> IntOfStr(x.s)
            [] OTHER -> Raised("TypeError")

----------------------------------------------------------------------------
(* bytes.decode('utf-8').                                                  *)

DecodeError == [ok |-> FALSE, text |-> <<>>]

RECURSIVE Utf8Decode(_, _, _, _, _)
Utf8Decode(bs, pend, acc, lo, out) ==
    IF bs = <<>>
    THEN IF pend = 0 THEN [ok |-> TRUE, text |-> out] ELSE DecodeError
    ELSE
      LET b == Head(bs).ch
          k == Head(bs).n
          rest == IF k = 1 THEN Tail(bs) ELSE <<Run(b, k - 1)>> \o Tail(bs)
      IN  IF pend = 0
          THEN IF b < 128 THEN Utf8Decode(Tail(bs), 0, 0, 0, AppendRun(out, b, k))
               ELSE IF b \in 194..223 THEN Utf8Decode(rest, 1, b - 192, 128, out)
               ELSE IF b \in 224..239 THEN Utf8Decode(rest, 2, b - 224, 2048, out)
               ELSE IF b \in 240..244 THEN Utf8Decode(rest, 3, b - 240, 65536, out)
               ELSE DecodeError
          ELSE IF b \in 128..191
               THEN LET cp == acc * 64 + (b - 128)
                    IN  IF pend > 1 THEN Utf8Decode(rest, pend - 1, cp, lo, out)
                        ELSE IF cp >= lo /\ cp <= 1114111 /\ cp \notin 55296..57343
                        THEN Utf8Decode(rest, 0, 0, 0, AppendRun(out, cp, 1))
                        ELSE DecodeError
               ELSE DecodeError

decode(bytes) == Utf8Decode(bytes, 0, 0, 0, <<>>)

----------------------------------------------------------------------------
(* The request.                                                            *)

\* a form field that was not sent
Absent == [present |-> FALSE, s |-> <<>>]
Field(t) == [present |-> TRUE, s |-> t]

\* request.form.get(name, default)
FormGet(form, name, default) ==
    IF form[name].present THEN PyStr(form[name].s) ELSE default

\* 'file' not in request.files
NoFile == [present |-> FALSE, filename |-> <<>>, content |-> <<>>]
Upload(name, bytes) == [present |-> TRUE, filename |-> name, content |-> bytes]

\* str.lower() on the ASCII letters
Lower(s) == [k \in 1..Len(s) |-> IF s[k] \in 65..90 THEN s[k] + 32 ELSE s[k]]

\* the position of the last '.' of s, 0 when there is none
LastDot(s) == IF \E k \in 1..Len(s) : s[k] = 46
              THEN CHOOSE k \in 1..Len(s) :
                      s[k] = 46 /\ \A j \in (k + 1)..Len(s) : s[j] # 46
              ELSE 0

allowed_file(filename) ==
    LET s == Expand(filename)
    IN  /\ LastDot(s) # 0
        /\ Lower(SubSeq(s, LastDot(s) + 1, Len(s))) \in ALLOWED_EXTENSIONS

----------------------------------------------------------------------------
(* validate_slider_values.                                                 *)

Valid == [is_valid |-> TRUE, error_msg |-> "None"]
Invalid(msg) == [is_valid |-> FALSE, error_msg |-> msg]

\* the variant with the upper end one too far
InRangeOffByOne(value) == SLIDER_MIN <= value /\ value <= SLIDER_MAX + 1

\* not 0 <= value <= 10 is the negation of this
InRange(value) == SLIDER_MIN <= value /\ value <= SLIDER_MAX

RECURSIVE ValidateFrom(_, _)
ValidateFrom(data, k) ==
    IF k > Len(required_params) THEN Valid
    ELSE LET param == required_params[k]
             value == int(FormGet(data, param, PyInt(0)))
         IN  IF value.exc # "none"
             THEN Invalid(param \o " must be a valid number")
             ELSE IF ~InRange(value.v)
             THEN Invalid(param \o " must be between 0 and 10")
             ELSE ValidateFrom(data, k + 1)

\* the variant looping over reversed(required_params)
RECURSIVE ValidateDownFrom(_, _)
ValidateDownFrom(data, k) ==
    IF k < 1 THEN Valid
    ELSE LET param == required_params[k]
             value == int(FormGet(data, param, PyInt(0)))
         IN  IF value.exc # "none"
             THEN Invalid(param \o " must be a valid number")
             ELSE IF ~InRange(value.v)
             THEN Invalid(param \o " must be between 0 and 10")
             ELSE ValidateDownFrom(data, k - 1)

validate_slider_values_reversed(data) ==
    ValidateDownFrom(data, Len(required_params))

validate_slider_values(data) == ValidateFrom(data, 1)

----------------------------------------------------------------------------
(* create_processing_prompt.                                               *)

\* one element of prompt_parts: a literal, or a literal followed by the text
Lit(str) == [kind |-> "lit", s |-> str, t |-> <<>>]
WithText(str, text) == [kind |-> "text", s |-> str, t |-> text]

PromptHeader ==
    "Please process the following text according to these specific parameters:"
PromptTextLabel == "\n**Text to process:**"
PromptInstructions ==
    "\n**Instructions:** Apply the above parameters to rewrite this text. Return only the processed text without explanations."

\* the heading of each block, up to the level
BlockLabel == [faithfulness |-> "\n**Faithfulness to Original (Level ",
               human_like |-> "\n**Human-like Sound (Level ",
               ai_like |-> "\n**AI-like Sound (Level ",
               formality |-> "\n**Formality Level (Level "]

Heading(param, level) == BlockLabel[param] \o ToString(level) \o "/10):**"

\* the three sentences of each block, in the order of the if / elif / else
Sentences ==
    [faithfulness |->
       << "Make significant changes and improvements to the content while preserving core meaning.",
          "Make moderate changes to improve clarity and flow while keeping most original content.",
          "Make minimal changes, focusing only on essential corrections and improvements." >>,
     human_like |->
       << "Use very natural, conversational language with contractions and casual expressions.",
          "Use moderately natural language that sounds human but polished.",
          "Use highly natural, warm, and engaging human language with personality." >>,
     ai_like |->
       << "Avoid any mechanical or robotic phrasing; sound completely human.",
          "Use some structured phrasing but maintain natural flow.",
          "Use precise, structured language that sounds more systematic and analytical." >>,
     formality |->
       << "Use very casual, informal language appropriate for friends or social media.",
          "Use moderately formal language suitable for business communication.",
          "Use highly formal, academic or professional language." >>]

\* the variant with the low band cut at < 2
FaithfulnessOffByOne(faithfulness) ==
    IF faithfulness < 2 THEN Sentences.faithfulness[1]
    ELSE IF faithfulness <= 5 THEN Sentences.faithfulness[2]
    ELSE Sentences.faithfulness[3]

FaithfulnessDirective(faithfulness) ==
    IF faithfulness <= 2 THEN Sentences.faithfulness[1]
    ELSE IF faithfulness <= 5 THEN Sentences.faithfulness[2]
    ELSE Sentences.faithfulness[3]

HumanLikeDirective(human_like) ==
    IF human_like <= 2 THEN Sentences.human_like[1]
    ELSE IF human_like <= 5 THEN Sentences.human_like[2]
    ELSE Sentences.human_like[3]

AiLikeDirective(ai_like) ==
    IF ai_like <= 2 THEN Sentences.ai_like[1]
    ELSE IF ai_like <= 5 THEN Sentences.ai_like[2]
    ELSE Sentences.ai_like[3]

FormalityDirective(formality) ==
    IF formality <= 2 THEN Sentences.formality[1]
    ELSE IF formality <= 5 THEN Sentences.formality[2]
    ELSE Sentences.formality[3]

\* prompt_parts, the list "".join concatenates
create_processing_prompt(text, faithfulness, human_like, ai_like, formality) ==
    << Lit(PromptHeader),
       Lit(Heading("faithfulness", faithfulness)),
       Lit(FaithfulnessDirective(faithfulness)),
       Lit(Heading("human_like", human_like)),
       Lit(HumanLikeDirective(human_like)),
       Lit(Heading("ai_like", ai_like)),
       Lit(AiLikeDirective(ai_like)),
       Lit(Heading("formality", formality)),
       Lit(FormalityDirective(formality)),
       Lit(PromptTextLabel),
       WithText("\n", text),
       Lit(PromptInstructions) >>

----------------------------------------------------------------------------
(* Response envelopes: jsonify(dict), status.  keys is the set of keys of  *)
(* the JSON object; a field outside keys is not part of the body.          *)

NoParameters == [faithfulness |-> 0, human_like |-> 0, ai_like |-> 0, formality |-> 0]

Failure(msg) ==
    [keys |-> {"success", "error"}, success |-> FALSE, error |-> msg,
     original_text |-> <<>>, processed_text |-> <<>>, parameters |-> NoParameters]

Success(original, processed, params) ==
    [keys |-> {"success", "original_text", "processed_text", "parameters"},
     success |-> TRUE, error |-> "",
     original_text |-> original, processed_text |-> processed, parameters |-> params]

NoResponse == [status |-> 0, body |-> [keys |-> {}, success |-> FALSE, error |-> "",
               original_text |-> <<>>, processed_text |-> <<>>,
               parameters |-> NoParameters]]

Reply(b, code) == [status |-> code, body |-> b]

MsgNoKey == "OpenAI API key not configured. Please contact administrator."
MsgEncoding == "File must be valid UTF-8 text"
MsgNoInput == "Please provide text input or upload a text file"
MsgTooLong == "Text input too long. Maximum 10,000 characters allowed."
MsgProviderRateLimit == "API rate limit exceeded. Please try again later."
MsgProviderFailed == "Failed to process text. Please try again."
MsgUnexpected == "An unexpected error occurred. Please try again."
MsgTooLarge == "File too large. Maximum size is 16MB."
MsgRateLimit == "Rate limit exceeded. Please try again later."

SystemMessage ==
    "You are an expert writing coach and text editor with deep expertise in grammar, style, clarity, and tone. You excel at improving text while respecting the author's voice and intent. Follow the given parameters precisely to enhance the provided text with professional writing standards."

\* str(e) of the exceptions Python itself raises in the handler
StrTypeErrorInt ==
    "int() argument must be a string, a bytes-like object or a real number, not 'NoneType'"
StrAttributeErrorStrip == "'NoneType' object has no attribute 'strip'"

----------------------------------------------------------------------------
(* The completion service.                                                 *)

NotCalled == [kind |-> "not_called", content |-> <<>>, detail |-> ""]
\* the call returns a completion whose message content is a text
Completion(t) == [kind |-> "completion", content |-> t, detail |-> ""]
\* the call returns a completion whose message content is None
CompletionWithoutContent == [kind |-> "no_content", content |-> <<>>, detail |-> ""]
\* the call raises: RateLimitError, InvalidRequestError, or another exception
ProviderRaises(exc, msg) == [kind |-> exc, content |-> <<>>, detail |-> msg]

----------------------------------------------------------------------------
(* process_text, stage by stage.                                           *)

Finish(b, code) ==
    /\ response' = Reply(b, code)
    /\ pc' = "done"

\* lines 119-139: the text the handler works on, or the failure
ResolveText(req) ==
    LET field == Strip(FormGet(req.form, "text_input", PyStr(<<>>)).s)
        reads == /\ req.file.present
                 /\ req.file.filename # <<>>
                 /\ allowed_file(req.file.filename)
        decoded == decode(req.file.content)
        text == IF reads /\ field = <<>> THEN decoded.text ELSE field
    IN  IF reads /\ ~decoded.ok
        THEN [outcome |-> "bad_encoding", text |-> <<>>, read |-> reads]
        ELSE IF text = <<>>
        THEN [outcome |-> "no_input", text |-> <<>>, read |-> reads]
        ELSE [outcome |-> "ok", text |-> text, read |-> reads]

\* the variant that lets 10,001 characters through
TooLongOffByOne(text) == TLen(text) > MAX_TEXT_LENGTH + 1
\* line 141
TooLong(text) == TLen(text) > MAX_TEXT_LENGTH

\* lines 153-156: the handler's own conversion of the four fields
ConvertSliders(form) ==
    [p \in {required_params[k] : k \in 1..Len(required_params)} |->
        int(FormGet(form, p, PyNone))]

\* the variant without the credential check
KeyMissingIgnored(key) == FALSE
\* line 112
KeyMissing(key) == ~key

CheckApiKey ==
    /\ pc = "received"
    /\ dispatch' = "process_text"
    /\ ran' = Append(ran, "credential")
    /\ IF KeyMissing(api_key)
       THEN Finish(Failure(MsgNoKey), 500)
       ELSE pc' = "resolve" /\ UNCHANGED response
    /\ UNCHANGED <<api_key, request, provider, text_input, file_read, sliders,
                   processing_prompt, calls, log>>

ResolveTextInput ==
    /\ pc = "resolve"
    /\ ran' = Append(ran, "resolve")
    /\ LET r == ResolveText(request)
       IN  /\ file_read' = r.read
           /\ CASE r.outcome = "bad_encoding" ->
                     Finish(Failure(MsgEncoding), 400) /\ UNCHANGED text_input
                [] r.outcome = "no_input" ->
                     Finish(Failure(MsgNoInput), 400) /\ UNCHANGED text_input
                [] OTHER ->
                     text_input' = r.text /\ pc' = "length" /\ UNCHANGED response
    /\ UNCHANGED <<api_key, request, dispatch, provider, sliders,
                   processing_prompt, calls, log>>

CheckLength ==
    /\ pc = "length"
    /\ ran' = Append(ran, "length")
    /\ IF TooLong(text_input)
       THEN Finish(Failure(MsgTooLong), 400)
       ELSE pc' = "validate" /\ UNCHANGED response
    /\ UNCHANGED <<api_key, request, dispatch, provider, text_input, file_read,
                   sliders, processing_prompt, calls, log>>

ValidateSliders ==
    /\ pc = "validate"
    /\ ran' = Append(ran, "validate")
    /\ LET v == validate_slider_values(request.form)
       IN  IF ~v.is_valid
           THEN Finish(Failure(v.error_msg), 400)
           ELSE pc' = "convert" /\ UNCHANGED response
    /\ UNCHANGED <<api_key, request, dispatch, provider, text_input, file_read,
                   sliders, processing_prompt, calls, log>>

\* an exception here is caught by the handler's outer except
GetSliderValues ==
    /\ pc = "convert"
    /\ ran' = Append(ran, "convert")
    /\ LET c == ConvertSliders(request.form)
       IN  IF \E p \in DOMAIN c : c[p].exc # "none"
           THEN /\ log' = Append(log, [level |-> "error", msg |->
                           "Unexpected error in process_text: " \o StrTypeErrorInt])
                /\ Finish(Failure(MsgUnexpected), 500)
                /\ UNCHANGED sliders
           ELSE /\ sliders' = [p \in DOMAIN c |-> c[p].v]
                /\ pc' = "build"
                /\ UNCHANGED <<response, log>>
    /\ UNCHANGED <<api_key, request, dispatch, provider, text_input, file_read,
                   processing_prompt, calls>>

BuildPrompt ==
    /\ pc = "build"
    /\ ran' = Append(ran, "build")
    /\ processing_prompt' =
          create_processing_prompt(text_input, sliders.faithfulness,
              sliders.human_like, sliders.ai_like, sliders.formality)
    /\ pc' = "call"
    /\ UNCHANGED <<api_key, request, dispatch, provider, text_input, file_read,
                   sliders, calls, response, log>>

\* lines 165-173: the arguments of openai.ChatCompletion.create
CompletionRequest(prompt) ==
    [model |-> "gpt-4o", system |-> SystemMessage, user |-> prompt]

\* the variant without the .strip() of line 175
CompletionResultUntrimmed(o, text, params) ==
    CASE o.kind = "completion" ->
           LET processed_text == o.content
           IN  [reply |-> Reply(Success(text, processed_text, params), 200),
                logged |-> << [level |-> "info", msg |->
                     "Text processed successfully. Length: " \o ToString(TLen(text))
                     \o " -> " \o ToString(TLen(processed_text))] >>]
      [] o.kind = "RateLimitError" ->
           [reply |-> Reply(Failure(MsgProviderRateLimit), 429), logged |-> <<>>]
      [] o.kind = "InvalidRequestError" ->
           [reply |-> Reply(Failure("Invalid request: " \o o.detail), 400),
            logged |-> <<>>]
      [] o.kind = "no_content" ->
           [reply |-> Reply(Failure(MsgProviderFailed), 500),
            logged |-> << [level |-> "error", msg |->
                 "OpenAI API error: " \o StrAttributeErrorStrip] >>]
      [] OTHER ->
           [reply |-> Reply(Failure(MsgProviderFailed), 500),
            logged |-> << [level |-> "error", msg |->
                 "OpenAI API error: " \o o.detail] >>]

\* the variant whose last except returns str(e) instead of logging it
CompletionResultLeaky(o, text, params) ==
    CASE o.kind = "completion" ->
           LET processed_text == Strip(o.content)
           IN  [reply |-> Reply(Success(text, processed_text, params), 200),
                logged |-> << [level |-> "info", msg |->
                     "Text processed successfully. Length: " \o ToString(TLen(text))
                     \o " -> " \o ToString(TLen(processed_text))] >>]
      [] o.kind = "RateLimitError" ->
           [reply |-> Reply(Failure(MsgProviderRateLimit), 429), logged |-> <<>>]
      [] o.kind = "InvalidRequestError" ->
           [reply |-> Reply(Failure("Invalid request: " \o o.detail), 400),
            logged |-> <<>>]
      [] o.kind = "no_content" ->
           [reply |-> Reply(Failure(MsgProviderFailed), 500),
            logged |-> << [level |-> "error", msg |->
                 "OpenAI API error: " \o StrAttributeErrorStrip] >>]
      [] OTHER ->
           [reply |-> Reply(Failure(MsgProviderFailed \o " " \o o.detail), 500),
            logged |-> <<>>]

\* lines 175-207: what the handler returns and logs for the service's answer o
CompletionResult(o, text, params) ==
    CASE o.kind = "completion" ->
           LET processed_text == Strip(o.content)
           IN  [reply |-> Reply(Success(text, processed_text, params), 200),
                logged |-> << [level |-> "info", msg |->
                     "Text processed successfully. Length: " \o ToString(TLen(text))
                     \o " -> " \o ToString(TLen(processed_text))] >>]
      [] o.kind = "RateLimitError" ->
           [reply |-> Reply(Failure(MsgProviderRateLimit), 429), logged |-> <<>>]
      [] o.kind = "InvalidRequestError" ->
           [reply |-> Reply(Failure("Invalid request: " \o o.detail), 400),
            logged |-> <<>>]
      [] o.kind = "no_content" ->
           [reply |-> Reply(Failure(MsgProviderFailed), 500),
            logged |-> << [level |-> "error", msg |->
                 "OpenAI API error: " \o StrAttributeErrorStrip] >>]
      [] OTHER ->
           [reply |-> Reply(Failure(MsgProviderFailed), 500),
            logged |-> << [level |-> "error", msg |->
                 "OpenAI API error: " \o o.detail] >>]

\* the answers of the completion service the model draws from
ProviderOutcomes ==
    { Completion(<<Run(32, 1), Run(79, 1), Run(75, 1), Run(10, 1)>>),
      Completion(<<>>),
      CompletionWithoutContent,
      ProviderRaises("RateLimitError", "Rate limit reached for requests"),
      ProviderRaises("InvalidRequestError", "This model's maximum context length is 8192 tokens"),
      ProviderRaises("APIConnectionError", "Error communicating with OpenAI"),
      ProviderRaises("AuthenticationError", "Incorrect API key provided") }

CallCompletion ==
    /\ pc = "call"
    /\ ran' = Append(ran, "call")
    /\ calls' = Append(calls, CompletionRequest(processing_prompt))
    /\ \E o \in ProviderOutcomes :
          LET r == CompletionResult(o, text_input, sliders)
          IN  /\ provider' = o
              /\ log' = log \o r.logged
              /\ response' = r.reply
              /\ pc' = "done"
    /\ UNCHANGED <<api_key, request, dispatch, text_input, file_read, sliders,
                   processing_prompt>>

----------------------------------------------------------------------------
(* The framework's error handlers: the request never enters process_text.  *)

\* errorhandler(413): the body is over MAX_CONTENT_LENGTH
too_large ==
    /\ pc = "received"
    /\ dispatch' = "too_large"
    /\ Finish(Failure(MsgTooLarge), 413)
    /\ UNCHANGED <<api_key, request, provider, text_input, file_read, sliders,
                   processing_prompt, calls, log, ran>>

\* errorhandler(429): the limiter refused the request
ratelimit_handler ==
    /\ pc = "received"
    /\ dispatch' = "ratelimit_handler"
    /\ Finish(Failure(MsgRateLimit), 429)
    /\ UNCHANGED <<api_key, request, provider, text_input, file_read, sliders,
                   processing_prompt, calls, log, ran>>

Next ==
    \/ CheckApiKey
    \/ ResolveTextInput
    \/ CheckLength
    \/ ValidateSliders
    \/ GetSliderValues
    \/ BuildPrompt
    \/ CallCompletion
    \/ too_large
    \/ ratelimit_handler

----------------------------------------------------------------------------
(* Requests.                                                               *)

\* "Hello world"
Hello == Enc(<<72, 101, 108, 108, 111, 32, 119, 111, 114, 108, 100>>)
Spaces(k) == IF k = 0 THEN <<>> ELSE <<Run(32, k)>>
\* k spaces, t, k newlines
Padded(k, t) == IF k = 0 THEN t ELSE Concat(Concat(Spaces(k), t), <<Run(10, k)>>)
\* n times 'x'
Long(n) == <<Run(120, n)>>

\* str(k) for k >= 0
RECURSIVE Digits(_)
Digits(k) == IF k < 10 THEN <<48 + k>> ELSE Append(Digits(k \div 10), 48 + (k % 10))
Decimal(k) == Enc(Digits(k))

Form(text, f, h, a, fo) ==
    [text_input |-> text, faithfulness |-> f, human_like |-> h, ai_like |-> a,
     formality |-> fo]

TextFields ==
    {Absent, Field(<<>>)}
    \cup {Field(Spaces(k)) : k \in 1..MaxPad}
    \cup {Field(Padded(k, Hello)) : k \in 0..MaxPad}
    \cup {Field(Long(n)) :
             n \in (MAX_TEXT_LENGTH - LenSlack)..(MAX_TEXT_LENGTH + LenSlack)}
    \cup {Field(Padded(MaxPad, Long(MAX_TEXT_LENGTH)))}

\* "3", " 7 ", "11", "abc"
SliderFields ==
    {Absent, Field(Decimal(3)), Field(Padded(1, Decimal(7))), Field(Decimal(11)),
     Field(Enc(<<97, 98, 99>>))}

\* file names: "", "notes.txt", "Draft.MD", "scan.pdf", "txt"
NameEmpty == <<>>
NameTxt == Enc(<<110, 111, 116, 101, 115, 46, 116, 120, 116>>)
NameMd == Enc(<<68, 114, 97, 102, 116, 46, 77, 68>>)
NamePdf == Enc(<<115, 99, 97, 110, 46, 112, 100, 102>>)
NameNoDot == Enc(<<116, 120, 116>>)

\* file contents: "Hi", "café" (2-byte sequence), a lone 0xFF, a
\* truncated 2-byte sequence
BytesHi == Enc(<<72, 105>>)
BytesCafe == Enc(<<99, 97, 102, 195, 169>>)
BytesInvalid == Enc(<<72, 255>>)
BytesTruncated == Enc(<<72, 195>>)

Files ==
    { NoFile,
      Upload(NameEmpty, BytesHi),
      Upload(NameTxt, BytesHi),
      Upload(NameTxt, BytesInvalid),
      Upload(NameTxt, Long(MAX_TEXT_LENGTH + LenSlack)),
      Upload(NameMd, BytesCafe),
      Upload(NameMd, BytesTruncated),
      Upload(NameMd, Spaces(MaxPad)),
      Upload(NamePdf, BytesInvalid),
      Upload(NameNoDot, BytesInvalid) }

Received ==
    /\ pc = "received"
    /\ dispatch = "none"
    /\ provider = NotCalled
    /\ text_input = <<>>
    /\ file_read = FALSE
    /\ sliders = NoParameters
    /\ processing_prompt = <<>>
    /\ calls = <<>>
    /\ response = NoResponse
    /\ log = <<>>
    /\ ran = <<>>

Init ==
    /\ api_key \in BOOLEAN
    /\ request \in [form : {Form(t, f, h, a, fo) :
                              t \in TextFields, f \in SliderFields,
                              h \in SliderFields, a \in SliderFields,
                              fo \in SliderFields},
                    file : Files]
    /\ Received

Spec == Init /\ [][Next]_vars

----------------------------------------------------------------------------
(* The validator on a wide range of raw slider values.                     *)

\* "", "abc", "5.5", "-1", "0", " 7 ", "10", "11", "15"
RawSliderFields ==
    { Absent, Field(<<>>), Field(Enc(<<97, 98, 99>>)), Field(Enc(<<53, 46, 53>>)),
      Field(Enc(<<45, 49>>)), Field(Decimal(SLIDER_MIN)), Field(Padded(1, Decimal(7))),
      Field(Decimal(SLIDER_MAX)), Field(Decimal(SLIDER_MAX + 1)), Field(Decimal(15)) }

InitSliders ==
    /\ api_key = TRUE
    /\ request \in [form : {Form(t, f, h, a, fo) :
                              t \in {Field(<<>>), Field(Hello)},
                              f \in RawSliderFields, h \in RawSliderFields,
                              a \in RawSliderFields, fo \in RawSliderFields},
                    file : {NoFile}]
    /\ Received

SpecSliders == InitSliders /\ [][Next]_vars

----------------------------------------------------------------------------
(* The prompt builder on every four-tuple of levels: the handler about to  *)
(* build the prompt of a request whose four sliders are SLIDER_MIN ..      *)
(* SLIDER_MAX.                                                             *)

Levels == SLIDER_MIN..SLIDER_MAX

InitPrompt ==
    \E text \in {Hello, Padded(MaxPad, Hello), Long(MAX_TEXT_LENGTH)} :
    \E f \in Levels, h \in Levels, a \in Levels, fo \in Levels :
       /\ api_key = TRUE
       /\ request = [form |-> Form(Field(text), Field(Decimal(f)), Field(Decimal(h)),
                                   Field(Decimal(a)), Field(Decimal(fo))),
                     file |-> NoFile]
       /\ pc = "build"
       /\ dispatch = "process_text"
       /\ provider = NotCalled
       /\ text_input = Strip(text)
       /\ file_read = FALSE
       /\ sliders = [faithfulness |-> f, human_like |-> h, ai_like |-> a,
                     formality |-> fo]
       /\ processing_prompt = <<>>
       /\ calls = <<>>
       /\ response = NoResponse
       /\ log = <<>>
       /\ ran = <<"credential", "resolve", "length", "validate", "convert">>

NextPrompt == BuildPrompt

SpecPrompt == InitPrompt /\ [][NextPrompt]_vars

----------------------------------------------------------------------------
(* Vocabulary of the properties.                                           *)

StageOrder ==
    <<"credential", "resolve", "length", "validate", "convert", "build", "call">>

SliderNames == {"faithfulness", "human_like", "ai_like", "formality"}

Reached(stage) == \E k \in DOMAIN ran : ran[k] = stage
InHandler == dispatch = "process_text"
Answered == pc = "done"

\* the text field of the request, trimmed ('' when it was not sent)
TextField ==
    Strip(IF request.form.text_input.present THEN request.form.text_input.s ELSE <<>>)

\* the upload is one the handler may read: a named file with an allowed extension
FileUsable ==
    /\ request.file.present
    /\ request.file.filename # <<>>
    /\ allowed_file(request.file.filename)

\* how a slider field reads: "absent", "nan" (not an integer literal),
\* "range" (an integer outside 0..10), "ok" (an integer in 0..10)
SliderKind(p) ==
    IF ~request.form[p].present THEN "absent"
    ELSE LET r == int(PyStr(request.form[p].s))
         IN  IF r.exc # "none" THEN "nan"
             ELSE IF r.v \in 0..10 THEN "ok" ELSE "range"

\* the integer a slider stands for: 0 when absent
SliderValue(p) ==
    IF request.form[p].present THEN int(PyStr(request.form[p].s)).v ELSE 0

SlidersAcceptable == \A p \in SliderNames : SliderKind(p) \in {"absent", "ok"}

Status == response.status
Error == response.body.error
IsFailure(code, msg) ==
    /\ Answered
    /\ Status = code
    /\ response.body.keys = {"success", "error"}
    /\ response.body.success = FALSE
    /\ Error = msg

----------------------------------------------------------------------------
(* C1 *)

\* ran is an initial part of the fixed stage order
C1_StagesInOrder ==
    /\ Len(ran) <= Len(StageOrder)
    /\ \A k \in DOMAIN ran : ran[k] = StageOrder[k]

\* the external call is attempted only with a non-empty text of at most 10,000
\* characters and validated sliders; a response ends the handler
C1_CallOnlyIf ==
    /\ (Reached("call") \/ calls # <<>>) =>
          /\ text_input # <<>>
          /\ TLen(text_input) <= 10000
          /\ SlidersAcceptable
    /\ response # NoResponse => Answered

C1_EmptyRequest == TextField = <<>> /\ ~request.file.present
C1_LongRequest ==
    ResolveText(request).outcome = "ok" /\ TLen(ResolveText(request).text) > 10000

\* C1 as stated: in process_text the stages run in the order text resolution,
\* length check, parameter validation, prompt construction, external call and
\* short-circuit; EVERY request with an empty text field and no file is answered
\* 400 'provide text or upload a file', every request whose resolved text is
\* longer than 10,000 characters is answered 400 with the length error, and
\* neither reaches prompt construction or the external call.
C1_AsStated ==
    InHandler =>
      /\ C1_StagesInOrder
      /\ C1_CallOnlyIf
      /\ (Answered /\ C1_EmptyRequest) =>
            IsFailure(400, MsgNoInput) /\ ~Reached("build") /\ ~Reached("call")
      /\ (Answered /\ C1_LongRequest) =>
            IsFailure(400, MsgTooLong) /\ ~Reached("build") /\ ~Reached("call")

\* C1 amended: the same, for requests handled with the provider credential
\* configured (without it the credential check answers 500 before any of these
\* stages): the stages run in the fixed order and short-circuit, the external
\* call is attempted only with a non-empty text of at most 10,000 characters
\* and validated sliders, an empty text field with no file is answered 400
\* 'provide text or upload a file' by the resolution stage, and a resolved text
\* of more than 10,000 characters is answered 400 with the length error by the
\* length check, whatever the sliders; neither builds a prompt or calls out.
C1_StageOrderShortCircuit ==
    InHandler =>
      /\ C1_StagesInOrder
      /\ C1_CallOnlyIf
      /\ (Answered /\ api_key /\ C1_EmptyRequest) =>
            /\ IsFailure(400, MsgNoInput)
            /\ ran = <<"credential", "resolve">>
            /\ processing_prompt = <<>> /\ calls = <<>>
      /\ (Answered /\ api_key /\ C1_LongRequest) =>
            /\ IsFailure(400, MsgTooLong)
            /\ ran = <<"credential", "resolve", "length">>
            /\ processing_prompt = <<>> /\ calls = <<>>

\* an over-long text with invalid sliders was answered with the length error
C1_Witness ==
    /\ InHandler /\ api_key /\ C1_LongRequest
    /\ ~SlidersAcceptable
    /\ IsFailure(400, MsgTooLong)

----------------------------------------------------------------------------
(* C2 *)

C2_Bad(k) == SliderKind(required_params[k]) \in {"nan", "range"}

\* the reason of the first slider, in the fixed order, that is not acceptable
C2_FirstReason ==
    LET k == CHOOSE j \in 1..4 : C2_Bad(j) /\ \A m \in 1..(j - 1) : ~C2_Bad(m)
        name == <<"faithfulness", "human_like", "ai_like", "formality">>[k]
    IN  IF SliderKind(name) = "nan"
        THEN name \o " must be a valid number"
        ELSE name \o " must be between 0 and 10"

\* validate_slider_values is first-error-wins over the fixed order, and Valid
\* exactly when every slider is absent or an integer in 0..10; the handler
\* answers an Invalid outcome with 400 and that one reason
C2_Validator ==
    /\ validate_slider_values(request.form).is_valid = SlidersAcceptable
    /\ ~SlidersAcceptable =>
          validate_slider_values(request.form) =
             [is_valid |-> FALSE, error_msg |-> C2_FirstReason]
    /\ Reached("validate") =>
          IF SlidersAcceptable
          THEN pc # "validate" /\ (Answered => Reached("convert"))
          ELSE IsFailure(400, C2_FirstReason) /\ ~Reached("convert")

\* the faithfulness field is "15"
C2_Faithfulness15 == request.form.faithfulness = Field(Decimal(15))

\* C2 as stated: validate_slider_values is fail-fast and first-error-wins in the
\* order faithfulness, human_like, ai_like, formality, Valid exactly when every
\* slider is absent or an integer in [0,10]; and EVERY request with
\* faithfulness=15 is answered 400 'faithfulness must be between 0 and 10'.
C2_AsStated ==
    /\ C2_Validator
    /\ (InHandler /\ Answered /\ C2_Faithfulness15) =>
          IsFailure(400, "faithfulness must be between 0 and 10")

\* C2 amended: validate_slider_values is fail-fast and first-error-wins in the
\* fixed order, with exactly one reason, and Valid exactly when every slider is
\* absent or converts to an integer in [0,10]; a request with faithfulness=15
\* THAT REACHES PARAMETER VALIDATION (credential configured, non-empty resolved
\* text of at most 10,000 characters) is answered 400 'faithfulness must be
\* between 0 and 10', whatever the later sliders.
C2_FirstErrorWins ==
    /\ C2_Validator
    /\ (InHandler /\ Answered /\ C2_Faithfulness15 /\ Reached("validate")) =>
          IsFailure(400, "faithfulness must be between 0 and 10")

\* faithfulness=15 with a non-numeric human_like was answered for faithfulness
C2_Witness ==
    /\ C2_Faithfulness15
    /\ SliderKind("human_like") = "nan"
    /\ Reached("validate")
    /\ IsFailure(400, "faithfulness must be between 0 and 10")

----------------------------------------------------------------------------
(* C3 *)

\* C3 as stated: with the credential configured, a non-empty resolved text of
\* at most 10,000 characters and every slider absent or an integer in [0,10],
\* the request is not rejected: absent sliders count as 0 and the handler goes
\* on to prompt construction and the external call.
C3_AbsentSlidersProceed ==
    ( /\ InHandler /\ Answered /\ api_key
      /\ ResolveText(request).outcome = "ok"
      /\ TLen(ResolveText(request).text) <= 10000
      /\ SlidersAcceptable )
    => /\ Reached("build") /\ Reached("call")
       /\ \A p \in SliderNames : sliders[p] = SliderValue(p)

----------------------------------------------------------------------------
(* C4 *)

\* C4 as stated: a non-empty (trimmed) text field is the resolved text and the
\* answer does not depend on the upload; the file is used only when the text
\* field is empty, and then only with an allowed extension and valid UTF-8: a
\* decoding failure of such a file gives the file-encoding error, and no text
\* from either source gives 'provide text or upload a file'.
C4_TextFieldPrecedence ==
    (InHandler /\ Reached("resolve")) =>
       IF TextField # <<>>
       THEN /\ text_input = TextField
            /\ Error \notin {MsgEncoding, MsgNoInput}
       ELSE IF FileUsable
       THEN IF decode(request.file.content).ok
            THEN IF decode(request.file.content).text # <<>>
                 THEN text_input = decode(request.file.content).text
                      /\ Error \notin {MsgEncoding, MsgNoInput}
                 ELSE IsFailure(400, MsgNoInput)
            ELSE IsFailure(400, MsgEncoding)
       ELSE IsFailure(400, MsgNoInput)

----------------------------------------------------------------------------
(* C5 *)

\* 1, 2, 3: the low, mid and high band
C5_Band(v) == CASE v \in {0, 1, 2} -> 1
                [] v \in {3, 4, 5} -> 2
                [] v \in {6, 7, 8, 9, 10} -> 3

C5_Block(p) ==
    << Lit(BlockLabel[p] \o ToString(sliders[p]) \o "/10):**"),
       Lit(Sentences[p][C5_Band(sliders[p])]) >>

\* C5: for every four levels in 0..10 and every text, the prompt built is the
\* header, the faithfulness, human_like, ai_like and formality blocks in that
\* order, each showing its own level and the one directive of its own band
\* (<= 2 low, 3..5 mid, >= 6 high), then the text verbatim and the closing
\* instruction.
C5_PromptBands ==
    Reached("build") =>
       processing_prompt =
          <<Lit(PromptHeader)>>
          \o C5_Block("faithfulness") \o C5_Block("human_like")
          \o C5_Block("ai_like") \o C5_Block("formality")
          \o << Lit(PromptTextLabel), WithText("\n", text_input),
                Lit(PromptInstructions) >>

\* all-zero levels with the text 'Hello world': four low directives and the text
C5_Witness ==
    /\ Reached("build")
    /\ \A p \in SliderNames : sliders[p] = 0
    /\ text_input = Hello
    /\ \A k \in 1..4 :
          processing_prompt[2 * k + 1].s = Sentences[required_params[k]][1]
    /\ processing_prompt[11].t = Hello

----------------------------------------------------------------------------
(* C6 *)

C6_Trimmed(t) ==
    t = <<>> \/ (t[1].ch \notin Whitespace /\ t[Len(t)].ch \notin Whitespace)

\* C6: every response (of process_text on any path, of the 413 and the 429
\* handler) has success true iff processed_text and parameters are present and
\* error is absent; a failure carries only the error message; a success
\* carries the resolved text, the provider's output trimmed, and the four
\* integers the prompt was built with.
C6_Envelope ==
    response # NoResponse =>
       LET b == response.body
       IN  /\ "success" \in b.keys
           /\ b.success <=> ( /\ {"processed_text", "parameters"} \subseteq b.keys
                              /\ "error" \notin b.keys )
           /\ ~b.success => b.keys = {"success", "error"} /\ b.error # ""
           /\ b.success =>
                 /\ "original_text" \in b.keys
                 /\ b.original_text = text_input
                 /\ b.original_text = ResolveText(request).text
                 /\ provider.kind = "completion"
                 /\ C6_Trimmed(b.processed_text)
                 /\ b.processed_text = Strip(provider.content)
                 /\ \A p \in SliderNames :
                       /\ b.parameters[p] = SliderValue(p)
                       /\ b.parameters[p] = sliders[p]
                 /\ \A k \in 1..4 :
                       processing_prompt[2 * k].s =
                          Heading(required_params[k], b.parameters[required_params[k]])

\* a success whose provider output had whitespace around it
C6_Witness ==
    /\ Answered
    /\ response.body.success
    /\ provider.content # response.body.processed_text
    /\ response.body.processed_text # <<>>

----------------------------------------------------------------------------
(* C7 *)

C7_LoggedError(detail) ==
    \E k \in DOMAIN log :
       log[k] = [level |-> "error", msg |-> "OpenAI API error: " \o detail]

\* C7: once the external call is made, its outcome decides the answer:
\* rate-limit exhaustion 429 'try again later'; invalid request 400 with the
\* provider's detail; any other failure, also one while reading the reply, 500
\* with the generic message, the detail logged and not returned; success 200.
\* No failure carries processed_text.
C7_OutcomeMapping ==
    Reached("call") =>
       /\ Answered
       /\ CASE provider.kind = "completion" ->
                 Status = 200 /\ response.body.success
            [] provider.kind = "RateLimitError" ->
                 IsFailure(429, MsgProviderRateLimit)
            [] provider.kind = "InvalidRequestError" ->
                 IsFailure(400, "Invalid request: " \o provider.detail)
            [] provider.kind = "no_content" ->
                 /\ IsFailure(500, "Failed to process text. Please try again.")
                 /\ C7_LoggedError(StrAttributeErrorStrip)
            [] OTHER ->
                 /\ IsFailure(500, "Failed to process text. Please try again.")
                 /\ C7_LoggedError(provider.detail)
       /\ ~response.body.success => "processed_text" \notin response.body.keys

\* the provider's reply held no content: 500, generic message, detail logged
C7_Witness ==
    /\ Reached("call")
    /\ provider.kind = "no_content"
    /\ IsFailure(500, MsgProviderFailed)
    /\ C7_LoggedError(StrAttributeErrorStrip)

----------------------------------------------------------------------------
(* C8 *)

C8_InputErrors ==
    {MsgEncoding, MsgNoInput, MsgTooLong}
    \cup {p \o " must be a valid number" : p \in SliderNames}
    \cup {p \o " must be between 0 and 10" : p \in SliderNames}

\* C8 as stated: every request ends with exactly one envelope; the status is
\* 200 exactly when success is true; 400 is for input, slider and invalid
\* provider request errors, 413 for an oversized upload, 429 for rate limiting,
\* and 500 only for a missing credential, an unexpected internal error or a
\* generic provider failure: no request whose only fault lies in its text or
\* its sliders is answered 500.
C8_StatusClasses ==
    Answered =>
       /\ response.body.keys # {}
       /\ (Status = 200) <=> response.body.success
       /\ Status \in {200, 400, 413, 429, 500}
       /\ Status = 400 =>
             \/ Error \in C8_InputErrors
             \/ provider.kind = "InvalidRequestError"
       /\ Status = 413 <=> dispatch = "too_large"
       /\ Status = 429 =>
             dispatch = "ratelimit_handler" \/ provider.kind = "RateLimitError"
       /\ Status = 500 =>
             \/ ~api_key
             \/ provider.kind \notin {"not_called", "completion", "RateLimitError",
                                      "InvalidRequestError"}

----------------------------------------------------------------------------
(* C9 *)

\* C9: without the provider credential, a request that enters process_text is
\* answered 500 'API key not configured' by the first stage, whatever its
\* text, file and sliders; the text is not resolved, the file not read, the
\* sliders not validated, no prompt is built and no call made.
C9_CredentialFirst ==
    /\ InHandler => ran # <<>> /\ ran[1] = "credential"
    /\ (InHandler /\ ~api_key) =>
          /\ IsFailure(500, "OpenAI API key not configured. Please contact administrator.")
          /\ ran = <<"credential">>
          /\ text_input = <<>>
          /\ ~file_read
          /\ processing_prompt = <<>>
          /\ calls = <<>>
          /\ provider = NotCalled

\* no credential, an empty text, a non-numeric slider and an undecodable .txt
\* upload: still the credential error
C9_Witness ==
    /\ InHandler /\ ~api_key
    /\ TextField = <<>>
    /\ ~SlidersAcceptable
    /\ FileUsable /\ ~decode(request.file.content).ok
    /\ IsFailure(500, MsgNoKey)

----------------------------------------------------------------------------
(* C10 *)

\* C10: the prompt builder and the external call are reached only with four
\* sliders that are sent, are integers in [0,10] and are the values the
\* validator checked, and with a non-empty text of at most 10,000 characters;
\* the prompt handed to the provider is the one built from them.
C10_BuilderPrecondition ==
    /\ (pc \in {"build", "call"} \/ Reached("build") \/ Reached("call")
          \/ calls # <<>> \/ processing_prompt # <<>>) =>
          /\ \A p \in SliderNames :
                /\ sliders[p] \in 0..10
                /\ SliderKind(p) = "ok"
                /\ sliders[p] = int(FormGet(request.form, p, PyInt(0))).v
          /\ text_input # <<>>
          /\ TLen(text_input) <= 10000
    /\ Reached("call") =>
          /\ Len(calls) = 1
          /\ calls[1].user = processing_prompt
          /\ \A k \in 1..4 :
                processing_prompt[2 * k].s =
                   BlockLabel[required_params[k]]
                   \o ToString(sliders[required_params[k]]) \o "/10):**"
          /\ processing_prompt[11].t = text_input

\* a call made for a request whose faithfulness was sent as ' 7 '
C10_Witness ==
    /\ Reached("call")
    /\ request.form.faithfulness = Field(Padded(1, Decimal(7)))
    /\ sliders.faithfulness = 7
    /\ TLen(text_input) = 10000

====
